---------------------------- MODULE Spec2Model ----------------------------
(***************************************************************************)
(* The message relay pipeline of src/app/api/chat/send-message/route.ts:   *)
(* the POST handler, its validator, its model-error classifier, the mock   *)
(* and the model-backed response streamers, the event publisher, the      *)
(* in-memory session store, and the ChatInterface component that sends     *)
(* the messages and listens on the session's channel.                      *)
(*                                                                         *)
(* JavaScript strings are TLA+ strings; Len, SubSeq and \o act on them.    *)
(* A handler is cut at its await points: one action is the synchronous     *)
(* code between two awaits, which the single-threaded runtime runs         *)
(* without interleaving.  Timestamps are left out of events and bodies.    *)
(***************************************************************************)
EXTENDS Integers, Sequences, FiniteSets, TLC

(***************************************************************************)
(* Bounds of the model.                                                    *)
(***************************************************************************)
\* Number of requests the model issues (they may all be in flight at once).
MaxRequests == 2
\* Number of non-empty or empty units a model-backed stream delivers at most.
MaxStreamUnits == 2
\* Number of publish attempts the broker may reject in one behaviour.
MaxPublishFailures == 1

(***************************************************************************)
(* Strings.                                                                *)
(***************************************************************************)
CharAt(s, i) == SubSeq(s, i, i)

\* The white space String.prototype.trim removes (the part the inputs use).
Whitespace == {" ", "\t", "\n", "\r"}

IsSpace(s, i) == CharAt(s, i) \in Whitespace

\* String.prototype.trim: drop leading and trailing white space.
Trim(s) ==
  IF \A i \in 1..Len(s) : IsSpace(s, i)
  THEN ""
  ELSE LET first == CHOOSE i \in 1..Len(s) :
                      ~IsSpace(s, i) /\ \A j \in 1..(i - 1) : IsSpace(s, j)
           last  == CHOOSE i \in 1..Len(s) :
                      ~IsSpace(s, i) /\ \A j \in (i + 1)..Len(s) : IsSpace(s, j)
       IN  SubSeq(s, first, last)

\* String.prototype.includes.
Includes(s, sub) ==
  \E i \in 1..(Len(s) - Len(sub) + 1) : SubSeq(s, i, i + Len(sub) - 1) = sub

UpperLetters == "ABCDEFGHIJKLMNOPQRSTUVWXYZ"
LowerLetters == "abcdefghijklmnopqrstuvwxyz"

LowerChar(c) ==
  IF \E i \in 1..Len(UpperLetters) : CharAt(UpperLetters, i) = c
  THEN CharAt(LowerLetters, CHOOSE i \in 1..Len(UpperLetters) : CharAt(UpperLetters, i) = c)
  ELSE c

\* String.prototype.toLowerCase (ASCII letters).
RECURSIVE ToLowerCase(_)
ToLowerCase(s) ==
  IF Len(s) = 0 THEN ""
  ELSE IF Len(s) = 1 THEN LowerChar(s)
  ELSE LET m == Len(s) \div 2
       IN  ToLowerCase(SubSeq(s, 1, m)) \o ToLowerCase(SubSeq(s, m + 1, Len(s)))

\* String.prototype.split(" "): the pieces between single spaces, empty
\* pieces kept.
RECURSIVE SplitOnSpace(_)
SplitOnSpace(s) ==
  IF \A i \in 1..Len(s) : CharAt(s, i) # " "
  THEN <<s>>
  ELSE LET i == CHOOSE k \in 1..Len(s) :
                  CharAt(s, k) = " " /\ \A j \in 1..(k - 1) : CharAt(s, j) # " "
       IN  <<SubSeq(s, 1, i - 1)>> \o SplitOnSpace(SubSeq(s, i + 1, Len(s)))

\* n copies of s, one after another.
RECURSIVE Repeat(_, _)
Repeat(s, n) ==
  IF n = 0 THEN ""
  ELSE IF n % 2 = 0
       THEN LET h == Repeat(s, n \div 2) IN h \o h
       ELSE s \o Repeat(s, n - 1)

(***************************************************************************)
(* JavaScript values of a request payload.                                 *)
(***************************************************************************)
Undefined == [t |-> "undefined"]
Null      == [t |-> "null"]
Str(s)    == [t |-> "string", s |-> s]
Num(n)    == [t |-> "number", n |-> n]
Obj(message, sessionId, userId) ==
  [t |-> "object", message |-> message, sessionId |-> sessionId, userId |-> userId]

\* typeof v
TypeOf(v) == IF v.t = "null" THEN "object" ELSE v.t

\* !!v
Truthy(v) ==
  CASE v.t = "undefined" -> FALSE
    [] v.t = "null"      -> FALSE
    [] v.t = "string"    -> Len(v.s) > 0
    [] v.t = "number"    -> v.n # 0
    [] OTHER             -> TRUE

\* body.message, body.sessionId, body.userId: undefined on a primitive.
Field(body, name) ==
  IF body.t = "object"
  THEN (CASE name = "message"   -> body.message
          [] name = "sessionId" -> body.sessionId
          [] OTHER              -> body.userId)
  ELSE Undefined

(***************************************************************************)
(* validateRequestBody                                                     *)
(***************************************************************************)
MaxMessageLength == 4000

ErrBodyObject      == "Request body must be an object"
ErrMessageRequired == "Message is required and must be a string"
ErrSessionRequired == "SessionId is required and must be a string"
ErrMessageEmpty    == "Message cannot be empty"
ErrMessageTooLong  == "Message too long (max 4000 characters)"

Threw(msg) == [ok |-> FALSE, error |-> msg]
Returned(v) == [ok |-> TRUE, value |-> v]

\* Mutant: the accepted request carries the message as sent, not trimmed.
validateRequestBodyNoTrim(body) ==
  IF ~Truthy(body) \/ TypeOf(body) # "object"
  THEN Threw(ErrBodyObject)
  ELSE LET message   == Field(body, "message")
           sessionId == Field(body, "sessionId")
           userId    == IF Field(body, "userId") = Undefined
                        THEN Str("anonymous") ELSE Field(body, "userId")
       IN  IF ~Truthy(message) \/ TypeOf(message) # "string"
           THEN Threw(ErrMessageRequired)
           ELSE IF ~Truthy(sessionId) \/ TypeOf(sessionId) # "string"
           THEN Threw(ErrSessionRequired)
           ELSE IF Len(Trim(message.s)) = 0
           THEN Threw(ErrMessageEmpty)
           ELSE IF Len(message.s) > MaxMessageLength
           THEN Threw(ErrMessageTooLong)
           ELSE Returned([message   |-> message.s,
                          sessionId |-> sessionId.s,
                          userId    |-> userId])

\* Mutant: the length check is off by one (>= instead of >).
validateRequestBodyOffByOne(body) ==
  IF ~Truthy(body) \/ TypeOf(body) # "object"
  THEN Threw(ErrBodyObject)
  ELSE LET message   == Field(body, "message")
           sessionId == Field(body, "sessionId")
           userId    == IF Field(body, "userId") = Undefined
                        THEN Str("anonymous") ELSE Field(body, "userId")
       IN  IF ~Truthy(message) \/ TypeOf(message) # "string"
           THEN Threw(ErrMessageRequired)
           ELSE IF ~Truthy(sessionId) \/ TypeOf(sessionId) # "string"
           THEN Threw(ErrSessionRequired)
           ELSE IF Len(Trim(message.s)) = 0
           THEN Threw(ErrMessageEmpty)
           ELSE IF Len(message.s) >= MaxMessageLength
           THEN Threw(ErrMessageTooLong)
           ELSE Returned([message   |-> Trim(message.s),
                          sessionId |-> sessionId.s,
                          userId    |-> userId])

validateRequestBody(body) ==
  IF ~Truthy(body) \/ TypeOf(body) # "object"
  THEN Threw(ErrBodyObject)
  ELSE LET message   == Field(body, "message")
           sessionId == Field(body, "sessionId")
           userId    == IF Field(body, "userId") = Undefined
                        THEN Str("anonymous") ELSE Field(body, "userId")
       IN  IF ~Truthy(message) \/ TypeOf(message) # "string"
           THEN Threw(ErrMessageRequired)
           ELSE IF ~Truthy(sessionId) \/ TypeOf(sessionId) # "string"
           THEN Threw(ErrSessionRequired)
           ELSE IF Len(Trim(message.s)) = 0
           THEN Threw(ErrMessageEmpty)
           ELSE IF Len(message.s) > MaxMessageLength
           THEN Threw(ErrMessageTooLong)
           ELSE Returned([message   |-> Trim(message.s),
                          sessionId |-> sessionId.s,
                          userId    |-> userId])

(***************************************************************************)
(* handleOpenAIError                                                       *)
(***************************************************************************)
\* A raw error thrown by the model API client: error?.status, error?.code.
RawError(status, code) == [status |-> status, code |-> code]

\* error?.status === n
StatusIs(error, n) == error.status = Num(n)

\* error?.status >= n (false when the status is undefined)
StatusAtLeast(error, n) == error.status.t = "number" /\ error.status.n >= n

\* Mutant: an authentication failure is answered with the upstream status.
ClassifiedUpstreamStatus(message, code, status) ==
  [message |-> message, code |-> code,
   status |-> IF code = "AUTH_FAILED" THEN 401 ELSE status]

Classified(message, code, status) ==
  [message |-> message, code |-> code, status |-> status]

\* Mutant: the connection-failure rule is tried before the status rules.
handleOpenAIErrorConnectionFirst(error) ==
  IF error.code = Str("ENOTFOUND") \/ error.code = Str("ECONNREFUSED")
  THEN Classified("Unable to connect to OpenAI. Please check your internet connection.",
                  "CONNECTION_ERROR", 503)
  ELSE IF StatusIs(error, 429)
  THEN IF error.code = Str("insufficient_quota")
       THEN Classified("OpenAI API quota exceeded.", "QUOTA_EXCEEDED", 429)
       ELSE Classified("OpenAI rate limit exceeded. Please try again in a moment.",
                       "RATE_LIMITED", 429)
  ELSE IF StatusIs(error, 401)
  THEN Classified("OpenAI API key is invalid. Please check your API key configuration.",
                  "AUTH_FAILED", 500)
  ELSE IF StatusIs(error, 400)
  THEN Classified("Invalid request to OpenAI. Please try a different message.",
                  "INVALID_REQUEST", 400)
  ELSE IF StatusAtLeast(error, 500)
  THEN Classified("OpenAI service is currently unavailable. Please try again later.",
                  "SERVICE_UNAVAILABLE", 503)
  ELSE Classified("An unexpected error occurred while processing your message.",
                  "UNKNOWN_ERROR", 500)

handleOpenAIError(error) ==
  IF StatusIs(error, 429)
  THEN IF error.code = Str("insufficient_quota")
       THEN Classified("OpenAI API quota exceeded.", "QUOTA_EXCEEDED", 429)
       ELSE Classified("OpenAI rate limit exceeded. Please try again in a moment.",
                       "RATE_LIMITED", 429)
  ELSE IF StatusIs(error, 401)
  THEN Classified("OpenAI API key is invalid. Please check your API key configuration.",
                  "AUTH_FAILED", 500)
  ELSE IF StatusIs(error, 400)
  THEN Classified("Invalid request to OpenAI. Please try a different message.",
                  "INVALID_REQUEST", 400)
  ELSE IF StatusAtLeast(error, 500)
  THEN Classified("OpenAI service is currently unavailable. Please try again later.",
                  "SERVICE_UNAVAILABLE", 503)
  ELSE IF error.code = Str("ENOTFOUND") \/ error.code = Str("ECONNREFUSED")
  THEN Classified("Unable to connect to OpenAI. Please check your internet connection.",
                  "CONNECTION_ERROR", 503)
  ELSE Classified("An unexpected error occurred while processing your message.",
                  "UNKNOWN_ERROR", 500)

(***************************************************************************)
(* generateMockResponse: the canned reply and its word chunks.             *)
(***************************************************************************)
MockGreeting ==
  "Hello! This is a mock response. Your API is working correctly! How can I help you today?"
MockTest ==
  "This is a test response. Your streaming API, Pusher integration, and error handling are all functioning properly."
MockStatus ==
  "I'm doing well, thank you! This is a simulated response while you're in development mode."
MockEcho(message) ==
  "You said: \"" \o message \o
  "\". This is a mock AI response to test your chat API. Everything is working correctly!"

\* Mutant: the "test" rule is tried before the greeting rule.
mockResponseTestFirst(message) ==
  LET lowerMessage == ToLowerCase(message)
  IN  IF Includes(lowerMessage, "test")
      THEN MockTest
      ELSE IF Includes(lowerMessage, "hello") \/ Includes(lowerMessage, "hi")
      THEN MockGreeting
      ELSE IF Includes(lowerMessage, "how are you")
      THEN MockStatus
      ELSE MockEcho(message)

mockResponse(message) ==
  LET lowerMessage == ToLowerCase(message)
  IN  IF Includes(lowerMessage, "hello") \/ Includes(lowerMessage, "hi")
      THEN MockGreeting
      ELSE IF Includes(lowerMessage, "test")
      THEN MockTest
      ELSE IF Includes(lowerMessage, "how are you")
      THEN MockStatus
      ELSE MockEcho(message)

\* const chunk = i === 0 ? word : ` ${word}` (i counts from 0)
MockChunkText(words, i) == IF i = 0 THEN words[i + 1] ELSE " " \o words[i + 1]

\* The word loop of generateMockResponse run to its end: the chunks it
\* publishes and the assistantMessage it returns.
RECURSIVE mockLoop(_, _, _, _)
mockLoop(words, i, assistantMessage, chunks) ==
  IF i < Len(words)
  THEN mockLoop(words, i + 1, assistantMessage \o MockChunkText(words, i),
                Append(chunks, MockChunkText(words, i)))
  ELSE [text |-> assistantMessage, chunks |-> chunks]

generateMockResponse(message) ==
  mockLoop(SplitOnSpace(mockResponse(message)), 0, "", <<>>)

(***************************************************************************)
(* The state.                                                              *)
(***************************************************************************)
VARIABLES
  env,            \* process.env: NODE_ENV and MOCK_OPENAI, read at start-up
  conversations,  \* the Map from sessionId to its ChatMessage[]
  req,            \* each request's local variables and position in POST
  failures,       \* history: pusher.trigger calls rejected so far
  probe,          \* the input and result of the pure-function specifications
  client          \* the state of the ChatInterface component in the browser

vars == <<env, conversations, req, failures, probe, client>>

Requests == 1..MaxRequests

UseMock == env.NODE_ENV = "development" /\ env.MOCK_OPENAI = "true"

\* The configurations the service starts in.
Configs ==
  { [NODE_ENV |-> "development", MOCK_OPENAI |-> "true"],
    [NODE_ENV |-> "production",  MOCK_OPENAI |-> "false"] }

SystemTurn ==
  [role |-> "system",
   content |-> "You are a helpful AI assistant. Respond conversationally and be engaging."]
UserTurn(message) == [role |-> "user", content |-> message]
AssistantTurn(text) == [role |-> "assistant", content |-> text]

\* Mutant: every session publishes on one channel.
ChannelShared(sessionId) == "chat-all"

Channel(sessionId) == "chat-" \o sessionId

NoResponse == [status |-> 0, body |-> Undefined]
NoRequest == [kind |-> "none"]
NoError == [status |-> Undefined, code |-> Undefined, none |-> TRUE]

IdleRequest ==
  [pc               |-> "idle",
   request          |-> NoRequest,
   sessionId        |-> Undefined,
   message          |-> "",
   userId           |-> Undefined,
   messageId        |-> "",
   assistantMessage |-> "",
   words            |-> <<>>,
   i                |-> 0,
   units            |-> 0,
   errorMessage     |-> "",
   openaiError      |-> NoError,
   response         |-> NoResponse,
   submitted        |-> <<>>,
   published        |-> <<>>,     \* history: this request's sendPusherEvent calls
   appended         |-> <<>>,     \* history: the turns this request pushed, with their index
   created          |-> FALSE]    \* history: this request created the session

\* ChatInterface after its first render: the useState initial values, no
\* fetch under way, no event of any request handled yet.
IdleClient ==
  [messages                |-> <<>>,
   isLoading               |-> FALSE,
   currentAssistantMessage |-> "",
   currentMessageId        |-> Null,
   fetching                |-> {},
   handled                 |-> [r \in Requests |-> 0]]

Init ==
  /\ env \in Configs
  /\ conversations = <<>>
  /\ req = [r \in Requests |-> IdleRequest]
  /\ failures = 0
  /\ probe = [kind |-> "none"]
  /\ client = IdleClient

(***************************************************************************)
(* The inputs.                                                             *)
(***************************************************************************)
JsonRequest(body) == [kind |-> "json", body |-> body]
MalformedRequest(error) == [kind |-> "malformed", error |-> error]

\* A message of n characters with no white space.
LongMessage(n) == Repeat("a", n)

ValidBodies ==
  { Obj(Str(" Hi\n"), Str("s1"), Undefined),
    Obj(Str("ok go"), Str("s1"), Undefined),
    Obj(Str("ok go"), Str("s2"), Str("u7")) }

InvalidBodies ==
  { Null, Num(5),
    Obj(Undefined, Str("s1"), Undefined),
    Obj(Str(""), Str("s1"), Undefined),
    Obj(Str(" \n\t"), Str("s1"), Undefined),
    Obj(Str(" "), Undefined, Undefined),
    Obj(Str("hi"), Num(3), Undefined),
    Obj(Str(LongMessage(MaxMessageLength + 1)), Str("s1"), Undefined),
    Obj(Str(LongMessage(MaxMessageLength - 1) \o "  "), Str("s2"), Undefined) }

\* What request.json() throws on a body that is not JSON: the runtime's
\* SyntaxError message, which quotes the body on current runtimes.
ParseErrors ==
  { "Unexpected end of JSON input",
    "Unexpected token 'm', \"must be\" is not valid JSON" }

IncomingRequests ==
  {JsonRequest(b) : b \in ValidBodies \cup InvalidBodies}
    \cup {MalformedRequest(e) : e \in ParseErrors}

\* The units a model-backed stream delivers: chunk.choices[0]?.delta?.content
StreamDeltas == {Undefined, Str("Hey"), Str(" ")}

\* The errors the model API client throws in the model.
StreamErrors ==
  { RawError(Num(400), Undefined),
    RawError(Undefined, Str("ECONNREFUSED")) }

\* `msg_${Date.now()}_${Math.random()...}`: the token request r draws; two
\* requests draw different tokens.
NewMessageId(r) == "msg_" \o ToString(r)

(***************************************************************************)
(* sendPusherEvent: pusher.trigger is called with the event; a rejection   *)
(* is caught and logged, and the caller continues either way.  The call is *)
(* recorded in the calling request's history.                              *)
(***************************************************************************)
Event(channel, event, data) == [channel |-> channel, event |-> event, data |-> data]

\* The request's locals after it called sendPusherEvent(channel, event, data).
sendPusherEvent(local, channel, event, data) ==
  [local EXCEPT !.published = Append(@, Event(channel, event, data))]

\* The broker's answer to one pusher.trigger call: accepted (ok) or rejected.
pusherTrigger(ok) ==
  /\ ok \/ failures < MaxPublishFailures
  /\ failures' = IF ok THEN failures ELSE failures + 1

\* Mutant: sendPusherEvent has no catch; a rejection ends the request with
\* the response of POST's catch block.
afterTriggerRethrown(local, ok) ==
  IF ok
  THEN local
  ELSE [local EXCEPT !.pc = "done",
                     !.response = [status |-> 500,
                                   body   |-> [error     |-> "Failed to process message",
                                               errorCode |-> "PROCESSING_ERROR",
                                               details   |-> Undefined]]]

\* The caller's locals when sendPusherEvent returns: the catch of
\* sendPusherEvent logs a rejection, and the caller continues as after an
\* accepted call.
afterTrigger(local, ok) == local

UserMessageData(message, userId) ==
  [message |-> message,
   userId  |-> IF Truthy(userId) THEN userId ELSE Str("anonymous"),
   type    |-> "user"]

\* Mutant: the event carries the delta as its content, not the accumulated text.
ChunkDataDeltaOnly(messageId, content, chunk) ==
  [messageId |-> messageId, content |-> chunk, chunk |-> chunk,
   isComplete |-> FALSE, type |-> "assistant"]

ChunkData(messageId, content, chunk) ==
  [messageId |-> messageId, content |-> content, chunk |-> chunk,
   isComplete |-> FALSE, type |-> "assistant"]

\* Mutant: the complete event carries an id of its own.
CompleteDataOwnId(messageId, content) ==
  [messageId |-> messageId \o "_complete", content |-> content,
   isComplete |-> TRUE, type |-> "assistant"]

CompleteData(messageId, content) ==
  [messageId |-> messageId, content |-> content,
   isComplete |-> TRUE, type |-> "assistant"]

\* Mutant: the service-error event carries a fixed errorCode.
ServiceErrorDataFixedCode(errorInfo) ==
  [error |-> errorInfo.message, errorCode |-> "SERVICE_ERROR"]

ServiceErrorData(errorInfo) ==
  [error |-> errorInfo.message, errorCode |-> errorInfo.code]

(***************************************************************************)
(* The catch block of POST.                                                *)
(***************************************************************************)
\* Mutant: "too long" is not recognised as a validation failure.
isValidationErrorNoTooLong(errorMessage) ==
  \/ Includes(errorMessage, "required")
  \/ Includes(errorMessage, "must be")
  \/ Includes(errorMessage, "cannot be empty")

\* Mutant: "cannot be empty" is not recognised as a validation failure.
isValidationErrorNoEmpty(errorMessage) ==
  \/ Includes(errorMessage, "required")
  \/ Includes(errorMessage, "must be")
  \/ Includes(errorMessage, "too long")

isValidationError(errorMessage) ==
  \/ Includes(errorMessage, "required")
  \/ Includes(errorMessage, "must be")
  \/ Includes(errorMessage, "cannot be empty")
  \/ Includes(errorMessage, "too long")

Details(text) == IF env.NODE_ENV = "development" THEN Str(text) ELSE Undefined

ErrorBody(errorMessage) ==
  [error     |-> IF isValidationError(errorMessage)
                 THEN errorMessage ELSE "Failed to process message",
   errorCode |-> IF isValidationError(errorMessage)
                 THEN "VALIDATION_ERROR" ELSE "PROCESSING_ERROR",
   details   |-> Details(errorMessage)]

ErrorStatus(errorMessage) == IF isValidationError(errorMessage) THEN 400 ELSE 500

ErrorResponse(errorMessage) ==
  [status |-> ErrorStatus(errorMessage), body |-> ErrorBody(errorMessage)]

\* return NextResponse.json(...): the request ends with this response.
Respond(local, response) == [local EXCEPT !.pc = "done", !.response = response]

\* catch (error) of POST with error.message = errorMessage: publish an
\* `error` event when a sessionId was resolved, then return the error response.
CatchBlock(r, local, errorMessage, ok) ==
  IF Truthy(local.sessionId)
  THEN /\ pusherTrigger(ok)
       /\ req' = [req EXCEPT ![r] =
            afterTrigger(sendPusherEvent([local EXCEPT !.pc = "errorPublished",
                                          !.errorMessage = errorMessage],
                            Channel(local.sessionId.s), "error", ErrorBody(errorMessage)), ok)]
  ELSE /\ ok
       /\ req' = [req EXCEPT ![r] =
            Respond([local EXCEPT !.errorMessage = errorMessage],
                    ErrorResponse(errorMessage))]
       /\ UNCHANGED failures

(***************************************************************************)
(* The session store.                                                      *)
(***************************************************************************)
\* conversations.has(sessionId) ? conversations.get(sessionId) : the seed
\* Mutant: the seed replaces an existing transcript.
getOrCreateReseed(sessionId) == <<SystemTurn>>

getOrCreate(sessionId) ==
  IF sessionId \in DOMAIN conversations
  THEN conversations[sessionId]
  ELSE <<SystemTurn>>

\* Mutant: the store keeps the system turn and the last two turns only.
StoredWindow(sessionId, history) ==
  [s \in DOMAIN conversations \cup {sessionId} |->
     IF s # sessionId THEN conversations[s]
     ELSE IF Len(history) > 3
          THEN <<history[1]>> \o SubSeq(history, Len(history) - 1, Len(history))
          ELSE history]

\* The Map after the array of sessionId became history.
Stored(sessionId, history) ==
  [s \in DOMAIN conversations \cup {sessionId} |->
     IF s = sessionId THEN history ELSE conversations[s]]

\* conversationHistory.push(turn), remembered in the request's history.
Pushed(local, history, turn) ==
  [local EXCEPT !.appended = Append(@, [index |-> Len(history) + 1, turn |-> turn])]

(***************************************************************************)
(* POST, one action for each stretch of code between two awaits.           *)
(***************************************************************************)
InFlight(r) == req[r].pc \notin {"idle", "done"}

\* A request arrives; the handler awaits request.json().  Requests are
\* numbered in the order they arrive.
Arrive(r, request) ==
  /\ req[r].pc = "idle"
  /\ \A q \in Requests : q < r => req[q].pc # "idle"
  /\ req' = [req EXCEPT ![r] = [@ EXCEPT !.pc = "json", !.request = request]]
  /\ UNCHANGED <<env, conversations, failures, probe>>

\* A request from a caller other than the ChatInterface component.
Receive(r, request) ==
  /\ Arrive(r, request)
  /\ UNCHANGED client

\* request.json() rejects: the body is not JSON.
ParseFails(r) ==
  /\ req[r].pc = "json"
  /\ req[r].request.kind = "malformed"
  /\ CatchBlock(r, req[r], req[r].request.error, TRUE)
  /\ UNCHANGED <<env, conversations, probe, client>>

\* The TypeError of body.message on a null body (the logging statement).
NullBodyError == "Cannot read properties of null (reading 'message')"

\* console.log("Request parsed:", {hasMessage: !!body.message, ...}) throws
\* on a null body, before the validator runs.
LoggingThrows(r) ==
  /\ req[r].pc = "json"
  /\ req[r].request.kind = "json"
  /\ req[r].request.body.t = "null"
  /\ CatchBlock(r, req[r], NullBodyError, TRUE)
  /\ UNCHANGED <<env, conversations, probe, client>>

\* validateRequestBody throws.
Reject(r) ==
  /\ req[r].pc = "json"
  /\ req[r].request.kind = "json"
  /\ req[r].request.body.t # "null"
  /\ ~validateRequestBody(req[r].request.body).ok
  /\ CatchBlock(r, req[r], validateRequestBody(req[r].request.body).error, TRUE)
  /\ UNCHANGED <<env, conversations, probe, client>>

\* validateRequestBody returns: resolve the session, push the user turn and
\* publish user-message.
Accept(r, ok) ==
  /\ req[r].pc = "json"
  /\ req[r].request.kind = "json"
  /\ req[r].request.body.t # "null"
  /\ validateRequestBody(req[r].request.body).ok
  /\ LET v       == validateRequestBody(req[r].request.body).value
         history == getOrCreate(v.sessionId)
         local   == [req[r] EXCEPT !.pc = "userPublished",
                                   !.sessionId = Str(v.sessionId),
                                   !.message = v.message,
                                   !.userId = v.userId,
                                   !.created = v.sessionId \notin DOMAIN conversations]
     IN  /\ conversations' = Stored(v.sessionId, Append(history, UserTurn(v.message)))
         /\ pusherTrigger(ok)
         /\ req' = [req EXCEPT ![r] =
              afterTrigger(sendPusherEvent(Pushed(local, history, UserTurn(v.message)),
                              Channel(v.sessionId), "user-message",
                              UserMessageData(v.message, v.userId)), ok)]
  /\ UNCHANGED <<env, probe, client>>

\* Mock mode: messageId is drawn, generateMockResponse picks the reply and
\* splits it into words.
BeginMock(r) ==
  /\ req[r].pc = "userPublished"
  /\ UseMock
  /\ req' = [req EXCEPT ![r] =
       [@ EXCEPT !.pc = "mock", !.messageId = NewMessageId(r), !.assistantMessage = "",
                 !.words = SplitOnSpace(mockResponse(req[r].message)), !.i = 0]]
  /\ UNCHANGED <<env, conversations, failures, probe, client>>

\* One iteration of the word loop: extend assistantMessage, publish the
\* chunk, wait 150 ms.
MockChunk(r, ok) ==
  /\ req[r].pc = "mock"
  /\ req[r].i < Len(req[r].words)
  /\ LET chunk   == MockChunkText(req[r].words, req[r].i)
         content == req[r].assistantMessage \o chunk
     IN  /\ pusherTrigger(ok)
         /\ req' = [req EXCEPT ![r] =
              afterTrigger(sendPusherEvent([@ EXCEPT !.assistantMessage = content, !.i = @ + 1],
                              Channel(req[r].sessionId.s), "assistant-message-chunk",
                              ChunkData(req[r].messageId, content, chunk)), ok)]
  /\ UNCHANGED <<env, conversations, probe, client>>

\* Mutant: the request submits the system turn and its own user turn.
submittedMessagesOwnTurn(r) == <<SystemTurn, UserTurn(req[r].message)>>

\* messages: conversationHistory, the session's array as it is at the call.
submittedMessages(r) == conversations[req[r].sessionId.s]

\* Model-backed mode: messageId is drawn and the conversation is submitted
\* to openai.chat.completions.create.
BeginOpenAI(r) ==
  /\ req[r].pc = "userPublished"
  /\ ~UseMock
  /\ req' = [req EXCEPT ![r] =
       [@ EXCEPT !.pc = "streaming", !.messageId = NewMessageId(r), !.assistantMessage = "",
                 !.submitted = submittedMessages(r)]]
  /\ UNCHANGED <<env, conversations, failures, probe, client>>

\* chunk.choices[0]?.delta?.content || ""
DeltaContent(delta) == IF Truthy(delta) THEN delta.s ELSE ""

\* for await (const chunk of stream): the stream delivers one unit.
StreamUnit(r, delta, ok) ==
  /\ req[r].pc = "streaming"
  /\ req[r].units < MaxStreamUnits
  /\ LET content == DeltaContent(delta)
         text    == req[r].assistantMessage \o content
     IN  IF Len(content) > 0
         THEN /\ pusherTrigger(ok)
              /\ req' = [req EXCEPT ![r] =
                   afterTrigger(sendPusherEvent([@ EXCEPT !.assistantMessage = text, !.units = @ + 1],
                                   Channel(req[r].sessionId.s), "assistant-message-chunk",
                                   ChunkData(req[r].messageId, text, content)), ok)]
         ELSE /\ ok
              /\ req' = [req EXCEPT ![r].units = @ + 1]
              /\ UNCHANGED failures
  /\ UNCHANGED <<env, conversations, probe, client>>

\* String(openaiError), the development-only details of the response.
ErrorText(error) == "Error"

\* openai.chat.completions.create or the stream throws: catch (openaiError).
StreamFails(r, error, ok) ==
  /\ req[r].pc = "streaming"
  /\ pusherTrigger(ok)
  /\ req' = [req EXCEPT ![r] =
       afterTrigger(sendPusherEvent([@ EXCEPT !.pc = "serviceErrorPublished", !.openaiError = error],
                       Channel(req[r].sessionId.s), "service-error",
                       ServiceErrorData(handleOpenAIError(error))), ok)]
  /\ UNCHANGED <<env, conversations, probe, client>>

\* Mutant: a model error is always answered with HTTP 500.
ServiceErrorResponseAlways500(error) ==
  [status |-> 500,
   body   |-> [error     |-> handleOpenAIError(error).message,
               errorCode |-> handleOpenAIError(error).code,
               details   |-> Details(ErrorText(error))]]

ServiceErrorResponse(error) ==
  [status |-> handleOpenAIError(error).status,
   body   |-> [error     |-> handleOpenAIError(error).message,
               errorCode |-> handleOpenAIError(error).code,
               details   |-> Details(ErrorText(error))]]

\* After service-error was published: return the classified response.
RespondServiceError(r) ==
  /\ req[r].pc = "serviceErrorPublished"
  /\ req' = [req EXCEPT ![r] = Respond(@, ServiceErrorResponse(req[r].openaiError))]
  /\ UNCHANGED <<env, conversations, failures, probe, client>>

\* Mutant: the word loop stops one word early.
GeneratedEarly(r) ==
  \/ req[r].pc = "mock" /\ req[r].i = Len(req[r].words) - 1
  \/ req[r].pc = "streaming"

\* The word loop or the stream has ended.
Generated(r) ==
  \/ req[r].pc = "mock" /\ req[r].i = Len(req[r].words)
  \/ req[r].pc = "streaming"

ErrNoResponse == "No response generated"

\* Mutant: the text is tested without trimming.
NoTextUntrimmed(assistantMessage) == Len(assistantMessage) = 0

\* !assistantMessage.trim()
NoText(assistantMessage) == Len(Trim(assistantMessage)) = 0

\* if (!assistantMessage.trim()) throw new Error("No response generated")
EmptyResponse(r, ok) ==
  /\ Generated(r)
  /\ NoText(req[r].assistantMessage)
  /\ CatchBlock(r, req[r], ErrNoResponse, ok)
  /\ UNCHANGED <<env, conversations, probe, client>>

\* Mutant: the request works on a copy of the array taken when it pushed its
\* user turn.
conversationHistoryCopy(r) ==
  SubSeq(conversations[req[r].sessionId.s], 1, req[r].appended[1].index)

\* conversationHistory: the session's array itself (conversations.get, line
\* 310), which every request of the session shares.
conversationHistory(r) == conversations[req[r].sessionId.s]

\* Push the assistant turn and publish assistant-message-complete.
Complete(r, ok) ==
  /\ Generated(r)
  /\ ~NoText(req[r].assistantMessage)
  /\ LET sid     == req[r].sessionId.s
         history == conversationHistory(r)
         turn    == AssistantTurn(req[r].assistantMessage)
     IN  /\ conversations' = Stored(sid, Append(history, turn))
         /\ pusherTrigger(ok)
         /\ req' = [req EXCEPT ![r] =
              afterTrigger(sendPusherEvent(Pushed([@ EXCEPT !.pc = "completePublished"], history, turn),
                              Channel(sid), "assistant-message-complete",
                              CompleteData(req[r].messageId, req[r].assistantMessage)), ok)]
  /\ UNCHANGED <<env, probe, client>>

SuccessResponse(messageId, message) ==
  [status |-> 200,
   body   |-> [success |-> TRUE, messageId |-> messageId, message |-> message]]

\* After assistant-message-complete was published: return 200.
RespondSuccess(r) ==
  /\ req[r].pc = "completePublished"
  /\ req' = [req EXCEPT ![r] =
       Respond(@, SuccessResponse(req[r].messageId, req[r].assistantMessage))]
  /\ UNCHANGED <<env, conversations, failures, probe, client>>

\* After the `error` event was published: return the error response.
RespondError(r) ==
  /\ req[r].pc = "errorPublished"
  /\ req' = [req EXCEPT ![r] = Respond(@, ErrorResponse(req[r].errorMessage))]
  /\ UNCHANGED <<env, conversations, failures, probe, client>>

\* Every step of POST after the request arrived, the stream's units and
\* errors drawn from deltas and errors.
Handle(r, deltas, errors) ==
  \/ ParseFails(r)
  \/ LoggingThrows(r)
  \/ Reject(r)
  \/ \E ok \in BOOLEAN : Accept(r, ok)
  \/ BeginMock(r)
  \/ \E ok \in BOOLEAN : MockChunk(r, ok)
  \/ BeginOpenAI(r)
  \/ \E delta \in deltas, ok \in BOOLEAN : StreamUnit(r, delta, ok)
  \/ \E error \in errors, ok \in BOOLEAN : StreamFails(r, error, ok)
  \/ \E ok \in BOOLEAN : EmptyResponse(r, ok)
  \/ \E ok \in BOOLEAN : Complete(r, ok)
  \/ RespondServiceError(r)
  \/ RespondSuccess(r)
  \/ RespondError(r)

Next ==
  \/ \E r \in Requests, request \in IncomingRequests : Receive(r, request)
  \/ \E r \in Requests : Handle(r, StreamDeltas, StreamErrors)

Spec == Init /\ [][Next]_vars

(***************************************************************************)
(* Requests issued one after another: a request arrives only when no       *)
(* other request is in flight.                                             *)
(***************************************************************************)
SeqBodies ==
  { Obj(Str(" Hi\n"), Str("s1"), Undefined),
    Obj(Str("ok go"), Str("s1"), Str("u7")),
    Obj(Str("ok go"), Str("s2"), Undefined),
    Obj(Str(" "), Str("s1"), Undefined) }

SeqRequests ==
  {JsonRequest(b) : b \in SeqBodies \cup {Null}}
    \cup {MalformedRequest("Unexpected end of JSON input")}

SeqDeltas == {Str("Hey"), Undefined}
SeqErrors == {RawError(Num(500), Undefined)}

SeqReceive(r, request) ==
  /\ \A q \in Requests : ~InFlight(q)
  /\ Receive(r, request)

SeqNext ==
  \/ \E r \in Requests, request \in SeqRequests : SeqReceive(r, request)
  \/ \E r \in Requests : Handle(r, SeqDeltas, SeqErrors)

SeqSpec == Init /\ [][SeqNext]_vars

(***************************************************************************)
(* One request on its own, with a wider choice of payloads, stream units,  *)
(* stream errors and configurations.                                       *)
(***************************************************************************)
SoloConfigs ==
  Configs \cup {[NODE_ENV |-> "development", MOCK_OPENAI |-> "false"]}

SoloBodies ==
  ValidBodies \cup InvalidBodies \cup
  { Str("hi"),
    Obj(Str("test this"), Str("s1"), Num(0)),
    Obj(Str(LongMessage(MaxMessageLength)), Str("s1"), Undefined),
    Obj(Num(7), Str("s1"), Undefined),
    Obj(Null, Str("s1"), Undefined),
    Obj(Str(""), Undefined, Undefined),
    Obj(Str("hi"), Undefined, Undefined),
    Obj(Str("hi"), Str(""), Undefined),
    Obj(Str("hi"), Null, Undefined),
    Obj(Str(LongMessage(MaxMessageLength + 1)), Undefined, Undefined),
    Obj(Str(Repeat(" ", MaxMessageLength + 1)), Str("s1"), Undefined) }

SoloRequests ==
  {JsonRequest(b) : b \in SoloBodies} \cup {MalformedRequest(e) : e \in ParseErrors}

SoloDeltas == StreamDeltas \cup {Str(""), Str("you")}

SoloErrors ==
  StreamErrors \cup
  { RawError(Num(429), Str("insufficient_quota")),
    RawError(Num(429), Undefined),
    RawError(Num(401), Str("invalid_api_key")),
    RawError(Num(503), Str("ECONNREFUSED")),
    RawError(Undefined, Undefined) }

SoloInit ==
  /\ env \in SoloConfigs
  /\ conversations = <<>>
  /\ req = [r \in Requests |-> IdleRequest]
  /\ failures = 0
  /\ probe = [kind |-> "none"]
  /\ client = IdleClient

SoloReceive(request) == Receive(1, request)

SoloNext ==
  \/ \E request \in SoloRequests : SoloReceive(request)
  \/ Handle(1, SoloDeltas, SoloErrors)

SoloSpec == SoloInit /\ [][SoloNext]_vars

(***************************************************************************)
(* The ChatInterface component: one browser client that sends its messages *)
(* to POST and is subscribed to the channel of its session.                *)
(***************************************************************************)
\* `session_${Date.now()}_${Math.random()...}`, drawn once by useState.
ClientSessionId == "session_1"

\* What the user has typed when sendMessage runs.
ClientInputs == {" Hi", "ok go\n", " ", LongMessage(MaxMessageLength + 1)}

ClientDeltas == {Str("Hey")}
ClientErrors == {RawError(Num(429), Undefined)}

\* sendMessage up to its await fetch(...): returns at once on a blank input
\* or while isLoading; otherwise sets isLoading and posts the trimmed input.
sendMessage(r, inputMessage) ==
  /\ ~client.isLoading
  /\ req[r].pc = "idle"
  /\ Len(Trim(inputMessage)) > 0
  /\ Arrive(r, JsonRequest(Obj(Str(Trim(inputMessage)), Str(ClientSessionId), Str("user123"))))
  /\ client' = [client EXCEPT !.isLoading = TRUE, !.fetching = @ \cup {r}]

\* sendMessage after its await fetch(...): a response that is not ok throws
\* into the catch, which clears isLoading; an ok response is only logged.
fetchResolves(r) ==
  /\ r \in client.fetching
  /\ req[r].pc = "done"
  /\ client' = [client EXCEPT !.fetching = @ \ {r},
                              !.isLoading = IF req[r].response.status = 200 THEN @ ELSE FALSE]
  /\ UNCHANGED <<env, conversations, req, failures, probe>>

\* The handlers bound to the channel: user-message, assistant-message-chunk,
\* assistant-message-complete and error; no handler is bound to service-error.
onEvent(c, e) ==
  CASE e.event = "user-message" ->
         [c EXCEPT !.messages = Append(@, [type |-> "user", content |-> e.data.message])]
    [] e.event = "assistant-message-chunk" ->
         [c EXCEPT !.currentMessageId = Str(e.data.messageId),
                   !.currentAssistantMessage = e.data.content]
    [] e.event = "assistant-message-complete" ->
         [c EXCEPT !.messages = Append(@, [type |-> "assistant", content |-> e.data.content]),
                   !.currentAssistantMessage = "",
                   !.currentMessageId = Null,
                   !.isLoading = FALSE]
    [] e.event = "error" -> [c EXCEPT !.isLoading = FALSE]
    [] OTHER -> c

\* The next event request r published reaches the client on the channel it
\* subscribed to, and the handler bound to that event runs.
EventDelivered(r) ==
  /\ client.handled[r] < Len(req[r].published)
  /\ LET e == req[r].published[client.handled[r] + 1]
     IN  /\ e.channel = Channel(ClientSessionId)
         /\ client' = [onEvent(client, e) EXCEPT !.handled[r] = @ + 1]
  /\ UNCHANGED <<env, conversations, req, failures, probe>>

\* The next event request r published never reaches the client: the broker
\* rejected it or the connection dropped it.
EventLost(r) ==
  /\ client.handled[r] < Len(req[r].published)
  /\ client' = [client EXCEPT !.handled[r] = @ + 1]
  /\ UNCHANGED <<env, conversations, req, failures, probe>>

\* The steps of POST on a request of the client (its body is always JSON and
\* never null).
Serve(r) ==
  \/ Reject(r)
  \/ \E ok \in BOOLEAN : Accept(r, ok)
  \/ BeginMock(r)
  \/ \E ok \in BOOLEAN : MockChunk(r, ok)
  \/ BeginOpenAI(r)
  \/ \E delta \in ClientDeltas, ok \in BOOLEAN : StreamUnit(r, delta, ok)
  \/ \E error \in ClientErrors, ok \in BOOLEAN : StreamFails(r, error, ok)
  \/ \E ok \in BOOLEAN : EmptyResponse(r, ok)
  \/ \E ok \in BOOLEAN : Complete(r, ok)
  \/ RespondServiceError(r)
  \/ RespondSuccess(r)
  \/ RespondError(r)

ClientNext ==
  \/ \E r \in Requests, inputMessage \in ClientInputs : sendMessage(r, inputMessage)
  \/ \E r \in Requests : fetchResolves(r)
  \/ \E r \in Requests : EventDelivered(r)
  \/ \E r \in Requests : EventLost(r)
  \/ \E r \in Requests : Serve(r)

ClientSpec == Init /\ [][ClientNext]_vars

(***************************************************************************)
(* The validator and the classifier on their own: the input is drawn in    *)
(* the initial state and one step applies the function.                    *)
(***************************************************************************)
NotRun == [ok |-> FALSE, error |-> "", pending |-> TRUE]

ProbeMessages ==
  { Undefined, Null, Num(7), Str(""), Str(" "), Str(" \n\t "), Str("a"), Str(" a b "),
    Str(LongMessage(MaxMessageLength - 1)),
    Str(LongMessage(MaxMessageLength)),
    Str(LongMessage(MaxMessageLength + 1)),
    Str(" " \o LongMessage(MaxMessageLength - 1)),
    Str(LongMessage(MaxMessageLength - 1) \o "  "),
    Str("\n" \o LongMessage(MaxMessageLength) \o "\n"),
    Str(Repeat(" ", MaxMessageLength + 1)) }

ProbeSessionIds == {Undefined, Null, Num(3), Str(""), Str("s1")}

ProbeBodies ==
  {Null, Undefined, Num(0), Num(5), Str(""), Str("hi")}
    \cup {Obj(m, sid, Undefined) : m \in ProbeMessages, sid \in ProbeSessionIds}
    \cup {Obj(m, Str("s1"), Str("u7")) : m \in ProbeMessages}

ProbeInit(inputs) ==
  /\ env = [NODE_ENV |-> "production", MOCK_OPENAI |-> "false"]
  /\ conversations = <<>>
  /\ req = [r \in Requests |-> IdleRequest]
  /\ failures = 0
  /\ probe \in inputs
  /\ client = IdleClient

Validate ==
  /\ probe.kind = "validate"
  /\ probe.result = NotRun
  /\ probe' = [probe EXCEPT !.result = validateRequestBody(probe.body)]
  /\ UNCHANGED <<env, conversations, req, failures, client>>

ValidateInit ==
  ProbeInit({[kind |-> "validate", body |-> b, result |-> NotRun] : b \in ProbeBodies})

ValidateSpec == ValidateInit /\ [][Validate]_vars

ProbeStatuses ==
  {Undefined} \cup {Num(n) : n \in {200, 400, 401, 403, 404, 429, 430, 499, 500, 502, 503, 599}}

ProbeCodes ==
  {Undefined} \cup {Str(c) : c \in {"insufficient_quota", "rate_limit_exceeded",
                                    "invalid_api_key", "ENOTFOUND", "ECONNREFUSED",
                                    "ETIMEDOUT"}}

ProbeErrors == {RawError(st, c) : st \in ProbeStatuses, c \in ProbeCodes}

Classify ==
  /\ probe.kind = "classify"
  /\ probe.result = NotRun
  /\ probe' = [probe EXCEPT !.result = handleOpenAIError(probe.error)]
  /\ UNCHANGED <<env, conversations, req, failures, client>>

ClassifyInit ==
  ProbeInit({[kind |-> "classify", error |-> e, result |-> NotRun] : e \in ProbeErrors})

ClassifySpec == ClassifyInit /\ [][Classify]_vars

\* The messages the mock generator is probed with: phrases and pairs of
\* phrases, as the validator hands them on (trimmed, not empty).
ProbePhrases ==
  {"hello", "Hi", "test", "TEST", "how are you", "How Are You?", "this", "why", "ok go"}

ProbeMockMessages ==
  ProbePhrases \cup {a \o " " \o b : a, b \in ProbePhrases}

GenerateMock ==
  /\ probe.kind = "mock"
  /\ probe.result = NotRun
  /\ probe' = [probe EXCEPT !.result = generateMockResponse(probe.message)]
  /\ UNCHANGED <<env, conversations, req, failures, client>>

MockInit ==
  ProbeInit({[kind |-> "mock", message |-> m, result |-> NotRun] : m \in ProbeMockMessages})

MockSpec == MockInit /\ [][GenerateMock]_vars

(***************************************************************************)
(* What the properties below read off a state.                             *)
(***************************************************************************)
Finished(r) == req[r].pc = "done"
Succeeded(r) == Finished(r) /\ req[r].response.status = 200

\* The request carries a JSON object whose message is a string.
HasMessage(r) ==
  /\ req[r].request.kind = "json"
  /\ req[r].request.body.t = "object"
  /\ req[r].request.body.message.t = "string"

\* ... and whose sessionId is a non-empty string.
HasSession(r) ==
  /\ HasMessage(r)
  /\ req[r].request.body.sessionId.t = "string"
  /\ Len(req[r].request.body.sessionId.s) > 0

SentMessage(r) == req[r].request.body.message.s
SentSession(r) == req[r].request.body.sessionId.s

IsChunkEvent(e) == e.event = "assistant-message-chunk"
IsCompleteEvent(e) == e.event = "assistant-message-complete"
IsServiceErrorEvent(e) == e.event = "service-error"

ChunkEvents(r) == SelectSeq(req[r].published, IsChunkEvent)
CompleteEvents(r) == SelectSeq(req[r].published, IsCompleteEvent)
EventNames(r) == [k \in 1..Len(req[r].published) |-> req[r].published[k].event]

CountSpaces(s) == Cardinality({i \in 1..Len(s) : CharAt(s, i) = " "})

\* C1: a request that ended with HTTP 200 pushed exactly two turns onto its
\* session's transcript: the user turn with the trimmed message, then the
\* assistant turn with the final text, both still in place.
C1_SuccessAppendsUserThenAssistant ==
  \A r \in Requests : Succeeded(r) =>
    /\ HasSession(r)
    /\ SentSession(r) \in DOMAIN conversations
    /\ LET a          == req[r].appended
           transcript == conversations[SentSession(r)]
       IN  /\ Len(a) = 2
           /\ a[1].turn = [role |-> "user", content |-> Trim(SentMessage(r))]
           /\ a[2].turn = [role |-> "assistant", content |-> req[r].response.body.message]
           /\ 1 < a[1].index /\ a[1].index < a[2].index /\ a[2].index <= Len(transcript)
           /\ transcript[a[1].index] = a[1].turn
           /\ transcript[a[2].index] = a[2].turn

\* A successful request whose message needed trimming and whose session
\* already held the turns of an earlier request.
C1_Witness ==
  \E r \in Requests :
    /\ Succeeded(r)
    /\ SentMessage(r) # Trim(SentMessage(r))
    /\ req[r].appended[1].index > 2

BlankOrTooLong(r) ==
  /\ HasMessage(r)
  /\ Len(Trim(SentMessage(r))) = 0 \/ Len(SentMessage(r)) > MaxMessageLength

\* C2: a request whose message is blank after trimming or longer than 4000
\* characters creates no session, pushes no turn and publishes no event, and
\* ends with HTTP 400.
C2_BlankOrTooLongRejectedWithoutEffect ==
  \A r \in Requests : BlankOrTooLong(r) =>
    /\ ~req[r].created
    /\ req[r].appended = <<>>
    /\ req[r].published = <<>>
    /\ req[r].sessionId = Undefined
    /\ Finished(r) => req[r].response.status = 400
    /\ (/\ req[r].request.body.sessionId.t = "string"
        /\ \A q \in Requests : req[q].sessionId # req[r].request.body.sessionId)
         => SentSession(r) \notin DOMAIN conversations

\* A finished request with a valid sessionId and a message of more than 4000
\* characters that are not white space: HTTP 400 and no session.
C2_Witness ==
  \E r \in Requests :
    /\ Finished(r) /\ HasSession(r) /\ HasMessage(r)
    /\ Len(Trim(SentMessage(r))) > MaxMessageLength
    /\ req[r].response.status = 400
    /\ DOMAIN conversations = {}

\* C3: in a successful request every chunk event's content is the previous
\* chunk event's content followed by its own chunk (the first is its chunk),
\* the last one's content is the final text, no chunk event is complete, and
\* exactly one assistant-message-complete event exists, complete, with the
\* final text.
C3_ChunksAccumulate ==
  \A r \in Requests : Succeeded(r) =>
    LET ch == ChunkEvents(r)
        co == CompleteEvents(r)
        T  == req[r].response.body.message
    IN  /\ Len(ch) >= 1
        /\ ch[1].data.content = ch[1].data.chunk
        /\ \A k \in 2..Len(ch) :
             ch[k].data.content = ch[k - 1].data.content \o ch[k].data.chunk
        /\ ch[Len(ch)].data.content = T
        /\ \A k \in 1..Len(ch) : ch[k].data.isComplete = FALSE
        /\ Len(co) = 1
        /\ co[1].data.isComplete = TRUE
        /\ co[1].data.content = T
        /\ \A k \in 1..Len(req[r].published) :
             req[r].published[k].event \in
               {"user-message", "assistant-message-chunk", "assistant-message-complete"}

\* A successful model-backed request with two chunk events.
C3_Witness ==
  \E r \in Requests :
    /\ ~UseMock
    /\ Succeeded(r)
    /\ Len(ChunkEvents(r)) = 2
    /\ ChunkEvents(r)[2].data.content # ChunkEvents(r)[2].data.chunk

\* The events of a mock request with the canned reply `reply`: user-message,
\* one chunk event for each word, assistant-message-complete.
MockEventNames(reply) ==
  <<"user-message">>
    \o [k \in 1..(CountSpaces(reply) + 1) |-> "assistant-message-chunk"]
    \o <<"assistant-message-complete">>

IsPrefix(s, t) == Len(s) <= Len(t) /\ s = SubSeq(t, 1, Len(s))

\* C4: in mock mode a request the validator accepts publishes, on channel
\* chat-<sessionId> only, a prefix of: user-message, N chunk events (N the
\* number of words of the canned reply), assistant-message-complete; and
\* when it has ended, it ended with HTTP 200 and published all of them.
C4_MockEventOrder ==
  \A r \in Requests :
    (UseMock /\ HasSession(r) /\ Len(Trim(SentMessage(r))) > 0
       /\ Len(SentMessage(r)) <= MaxMessageLength) =>
      LET expected == MockEventNames(mockResponse(Trim(SentMessage(r))))
      IN  /\ IsPrefix(EventNames(r), expected)
          /\ \A k \in 1..Len(req[r].published) :
               req[r].published[k].channel = "chat-" \o SentSession(r)
          /\ Finished(r) =>
               /\ req[r].response.status = 200
               /\ EventNames(r) = expected

\* A finished mock request with the echo of "ok go": 19 words.
C4_Witness ==
  /\ UseMock
  /\ \E r \in Requests :
       /\ Succeeded(r)
       /\ Trim(SentMessage(r)) = "ok go"
       /\ Len(ChunkEvents(r)) = 19

\* The request was sent for session s.
IsOn(r, s) == HasMessage(r) /\ req[r].request.body.sessionId = Str(s)

\* The turns of the requests rs, in order: each one's user turn, then its
\* assistant turn.
RECURSIVE ExchangeTurns(_)
ExchangeTurns(rs) ==
  IF rs = <<>>
  THEN <<>>
  ELSE << [role |-> "user", content |-> Trim(SentMessage(Head(rs)))],
          [role |-> "assistant", content |-> req[Head(rs)].response.body.message] >>
         \o ExchangeTurns(Tail(rs))

SessionIds == {"s1", "s2"}

\* C5: when requests are issued one after another (they are numbered in
\* that order) and the k requests sent so far for a session all ended with
\* HTTP 200, the session's transcript is the system turn followed by the
\* user and assistant turn of each request, in the order of the requests
\* (2k+1 turns).
C5_SequentialTranscript ==
  \A s \in SessionIds :
    LET rs == SelectSeq([r \in Requests |-> r], LAMBDA r : req[r].pc # "idle" /\ IsOn(r, s))
    IN  (/\ Len(rs) >= 1
         /\ \A r \in Requests : (req[r].pc # "idle" /\ IsOn(r, s)) => Succeeded(r))
          => /\ s \in DOMAIN conversations
             /\ conversations[s] = <<SystemTurn>> \o ExchangeTurns(rs)
             /\ Len(conversations[s]) = 2 * Len(rs) + 1

\* Two successful requests with different messages on one session: 5 turns.
C5_Witness ==
  \E r, q \in Requests :
    /\ Succeeded(r) /\ Succeeded(q)
    /\ SentSession(r) = SentSession(q)
    /\ Trim(SentMessage(r)) # Trim(SentMessage(q))
    /\ Len(conversations[SentSession(r)]) = 5

\* The rules of the classification table, in their order.
RuleMatches(k, status, code) ==
  CASE k = 1 -> status = Num(429) /\ code = Str("insufficient_quota")
    [] k = 2 -> status = Num(429)
    [] k = 3 -> status = Num(401)
    [] k = 4 -> status = Num(400)
    [] k = 5 -> status.t = "number" /\ status.n >= 500
    [] k = 6 -> code \in {Str("ENOTFOUND"), Str("ECONNREFUSED")}
    [] OTHER -> TRUE

RuleOutcome ==
  << <<"QUOTA_EXCEEDED", 429>>, <<"RATE_LIMITED", 429>>, <<"AUTH_FAILED", 500>>,
     <<"INVALID_REQUEST", 400>>, <<"SERVICE_UNAVAILABLE", 503>>,
     <<"CONNECTION_ERROR", 503>>, <<"UNKNOWN_ERROR", 500>> >>

\* C6: handleOpenAIError returns the code and status of the first rule of
\* the table that matches the error's status and code.
C6_ClassificationTable ==
  (probe.kind = "classify" /\ probe.result # NotRun) =>
    LET first == CHOOSE k \in 1..7 :
                   /\ RuleMatches(k, probe.error.status, probe.error.code)
                   /\ \A j \in 1..(k - 1) :
                        ~RuleMatches(j, probe.error.status, probe.error.code)
    IN  <<probe.result.code, probe.result.status>> = RuleOutcome[first]

\* A classified error that matches a status rule and the connection rule.
C6_Witness ==
  /\ probe.kind = "classify"
  /\ probe.result # NotRun
  /\ probe.error = RawError(Num(503), Str("ECONNREFUSED"))
  /\ probe.result.code = "SERVICE_UNAVAILABLE"

\* The request's message is a string that is empty after trimming, and its
\* sessionId is valid.
BlankMessage(r) == HasSession(r) /\ Len(Trim(SentMessage(r))) = 0

\* C7 as stated: every request with an empty or white-space-only message and
\* a valid sessionId ends with HTTP 400, error "Message cannot be empty",
\* errorCode VALIDATION_ERROR and no published event.
C7_Original ==
  \A r \in Requests : (BlankMessage(r) /\ Finished(r)) =>
    /\ req[r].response.status = 400
    /\ req[r].response.body.error = "Message cannot be empty"
    /\ req[r].response.body.errorCode = "VALIDATION_ERROR"
    /\ req[r].published = <<>>

\* C7 as amended: such a request ends with HTTP 400, errorCode
\* VALIDATION_ERROR and no published event; the error is "Message cannot be
\* empty" for a white-space-only message and "Message is required and must
\* be a string" for the empty string.
C7_BlankMessageRejected ==
  \A r \in Requests : (BlankMessage(r) /\ Finished(r)) =>
    /\ req[r].response.status = 400
    /\ req[r].response.body.error =
         IF SentMessage(r) = ""
         THEN "Message is required and must be a string"
         ELSE "Message cannot be empty"
    /\ req[r].response.body.errorCode = "VALIDATION_ERROR"
    /\ req[r].published = <<>>

\* A finished request with a white-space-only message.
C7_Witness ==
  \E r \in Requests :
    /\ BlankMessage(r) /\ Finished(r) /\ SentMessage(r) # ""
    /\ req[r].response.status = 400
    /\ req[r].response.body.error = "Message cannot be empty"

\* The payload is a non-null object whose sessionId is a non-empty string
\* and whose message is a string.
ProbeWellTyped ==
  /\ probe.body.t = "object"
  /\ probe.body.sessionId.t = "string" /\ Len(probe.body.sessionId.s) > 0
  /\ probe.body.message.t = "string"

\* C8 as stated: the validator accepts exactly the well-typed payloads whose
\* message has a trimmed length from 1 to 4000, and the accepted request
\* carries the trimmed message.
C8_Original ==
  (probe.kind = "validate" /\ probe.result # NotRun) =>
    /\ probe.result.ok <=>
         /\ ProbeWellTyped
         /\ Len(Trim(probe.body.message.s)) >= 1
         /\ Len(Trim(probe.body.message.s)) <= 4000
    /\ probe.result.ok => probe.result.value.message = Trim(probe.body.message.s)

\* C8 as amended: the validator accepts exactly the well-typed payloads whose
\* message has a trimmed length of at least 1 and an untrimmed length of at
\* most 4000, and the accepted request carries the trimmed message and the
\* sessionId.
C8_ValidatorAccepts ==
  (probe.kind = "validate" /\ probe.result # NotRun) =>
    /\ probe.result.ok <=>
         /\ ProbeWellTyped
         /\ Len(Trim(probe.body.message.s)) >= 1
         /\ Len(probe.body.message.s) <= 4000
    /\ probe.result.ok =>
         /\ probe.result.value.message = Trim(probe.body.message.s)
         /\ probe.result.value.sessionId = probe.body.sessionId.s

\* A rejected well-typed payload whose message is longer than 4000 characters
\* only because of surrounding white space.
C8_Witness ==
  /\ probe.kind = "validate"
  /\ probe.result # NotRun
  /\ ProbeWellTyped
  /\ Len(probe.body.message.s) > 4000
  /\ Len(Trim(probe.body.message.s)) \in 1..4000
  /\ ~probe.result.ok

\* C9 as stated: a finished request whose payload the validator's rules
\* reject ended with HTTP 400 and VALIDATION_ERROR, and a finished request
\* that failed although its payload passes them did not end with HTTP 400
\* unless the errorCode is INVALID_REQUEST.
C9_Original ==
  \A r \in Requests : (Finished(r) /\ req[r].request.kind = "json") =>
    IF validateRequestBody(req[r].request.body).ok
    THEN req[r].response.status = 400 =>
           req[r].response.body.errorCode = "INVALID_REQUEST"
    ELSE /\ req[r].response.status = 400
         /\ req[r].response.body.errorCode = "VALIDATION_ERROR"

StreamFailed(r) == req[r].openaiError # NoError

\* C10: once the model-backed stream of a request has failed, the request's
\* last published event is its only service-error event and carries the
\* classified errorCode, it published no assistant-message-complete and no
\* `error` event, it pushed only its user turn, which is still in the
\* transcript, and if it has ended, it ended with the classified status and
\* errorCode.
C10_StreamFailure ==
  \A r \in Requests : StreamFailed(r) =>
    LET info == handleOpenAIError(req[r].openaiError)
        pub  == req[r].published
        sid  == req[r].sessionId.s
    IN  /\ req[r].pc \in {"serviceErrorPublished", "done"}
        /\ Len(SelectSeq(pub, IsServiceErrorEvent)) = 1
        /\ pub[Len(pub)].event = "service-error"
        /\ pub[Len(pub)].data.errorCode = info.code
        /\ pub[Len(pub)].channel = "chat-" \o sid
        /\ \A k \in 1..(Len(pub) - 1) :
             pub[k].event \in {"user-message", "assistant-message-chunk"}
        /\ Len(req[r].appended) = 1
        /\ req[r].appended[1].turn = [role |-> "user", content |-> Trim(SentMessage(r))]
        /\ conversations[sid][req[r].appended[1].index] = req[r].appended[1].turn
        /\ Finished(r) =>
             /\ req[r].response.status = info.status
             /\ req[r].response.body.errorCode = info.code

\* A finished request whose stream failed with status 429 and the quota
\* indicator after two chunks were published.
C10_Witness ==
  \E r \in Requests :
    /\ Finished(r) /\ StreamFailed(r) /\ Len(ChunkEvents(r)) = 2
    /\ req[r].response.status = 429
    /\ req[r].response.body.errorCode = "QUOTA_EXCEEDED"
    /\ Len(conversations[SentSession(r)]) = 2

IsErrorEvent(e) == e.event = "error"
ErrorEvents(r) == SelectSeq(req[r].published, IsErrorEvent)

\* The request was accepted, its stream did not fail, and it has ended with
\* a final text that is empty after trimming.
EndedWithoutText(r) ==
  /\ Finished(r)
  /\ Truthy(req[r].sessionId)
  /\ ~StreamFailed(r)
  /\ Len(Trim(req[r].assistantMessage)) = 0

\* C11: a request whose stream ended without an error and with an empty or
\* white-space-only final text ended with HTTP 500 and PROCESSING_ERROR,
\* pushed only its user turn, published no assistant-message-complete, and
\* published exactly one `error` event, on its session's channel.
C11_EmptyTextIsProcessingFailure ==
  \A r \in Requests : EndedWithoutText(r) =>
    LET sid == req[r].sessionId.s
    IN  /\ req[r].response.status = 500
        /\ req[r].response.body.errorCode = "PROCESSING_ERROR"
        /\ Len(req[r].appended) = 1
        /\ req[r].appended[1].turn.role = "user"
        /\ \A k \in 1..Len(conversations[sid]) :
             conversations[sid][k].role = "assistant" =>
               \E q \in Requests \ {r} :
                 \E a \in 1..Len(req[q].appended) : req[q].appended[a].index = k
        /\ CompleteEvents(r) = <<>>
        /\ Len(ErrorEvents(r)) = 1
        /\ ErrorEvents(r)[1].channel = "chat-" \o sid
        /\ ErrorEvents(r)[1].data.errorCode = "PROCESSING_ERROR"

\* A finished model-backed request whose stream delivered one white-space
\* chunk and then ended.
C11_Witness ==
  \E r \in Requests :
    /\ EndedWithoutText(r)
    /\ req[r].assistantMessage = " "
    /\ Len(ChunkEvents(r)) = 1
    /\ req[r].response.status = 500

\* What an event carries apart from the channel, the messageId and the
\* sender's userId.
EventContent(e) ==
  CASE e.event = "user-message" -> <<e.event, e.data.message>>
    [] e.event \in {"assistant-message-chunk", "assistant-message-complete"} ->
         <<e.event, e.data.content, e.data.isComplete>>
    [] OTHER -> <<e.event, e.data>>

EventContents(r) == [k \in 1..Len(req[r].published) |-> EventContent(req[r].published[k])]

\* The response apart from the messageId.
Outcome(r) ==
  IF req[r].response.status = 200
  THEN <<200, req[r].response.body.success, req[r].response.body.message>>
  ELSE <<req[r].response.status, req[r].response.body>>

\* Two requests with the same message, each the first on its session, whose
\* model streams (in model-backed mode) delivered the same text and ended
\* the same way.
SameInputs(r, q) ==
  /\ HasSession(r) /\ HasSession(q)
  /\ SentMessage(r) = SentMessage(q)
  /\ req[r].created /\ req[q].created
  /\ ~UseMock => /\ req[r].assistantMessage = req[q].assistantMessage
                 /\ req[r].openaiError = req[q].openaiError

\* C12: two finished requests with the same inputs have the same response
\* (apart from the messageId), pushed the same turns at the same places and
\* made the same sendPusherEvent calls, however many of the pusher.trigger
\* calls of either were rejected.
C12_PublishFailuresDoNotMatter ==
  \A r, q \in Requests :
    (Finished(r) /\ Finished(q) /\ SameInputs(r, q)) =>
      /\ Outcome(r) = Outcome(q)
      /\ req[r].appended = req[q].appended
      /\ EventContents(r) = EventContents(q)

\* Both requests succeeded with the same inputs, and exactly one
\* pusher.trigger call, of one of them, was rejected.
C12_Witness ==
  /\ failures = 1
  /\ Succeeded(1) /\ Succeeded(2)
  /\ SameInputs(1, 2)
  /\ \A r \in Requests : r > 2 => req[r].pc = "idle"

ResponseStatuses == {200, 400, 429, 500, 503}

\* The status that goes with each errorCode.
StatusOfCode ==
  [c \in {"VALIDATION_ERROR", "INVALID_REQUEST"} |-> 400]
    @@ [c \in {"QUOTA_EXCEEDED", "RATE_LIMITED"} |-> 429]
    @@ [c \in {"AUTH_FAILED", "UNKNOWN_ERROR", "PROCESSING_ERROR"} |-> 500]
    @@ [c \in {"SERVICE_UNAVAILABLE", "CONNECTION_ERROR"} |-> 503]

\* A request has a response exactly when POST has returned; its status is
\* one of 200, 400, 429, 500, 503, and a response other than 200 carries one
\* of the nine errorCodes, whose status it has.
ResponseWellFormed ==
  \A r \in Requests :
    /\ Finished(r) <=> req[r].response # NoResponse
    /\ Finished(r) =>
         /\ req[r].response.status \in ResponseStatuses
         /\ req[r].response.status # 200 =>
              /\ req[r].response.body.errorCode \in DOMAIN StatusOfCode
              /\ req[r].response.status = StatusOfCode[req[r].response.body.errorCode]

\* Once POST has returned, the request and its response never change.
ReturnsOnce == \A r \in Requests : Finished(r) => req'[r] = req[r]

\* C13: every request that has returned has exactly one response, which
\* never changes; its status is one of 200, 400, 429, 500, 503; a response
\* other than 200 carries one of the nine errorCodes, and its status is the
\* one of that code.
C13_OneResponseStatusFromCode == []ResponseWellFormed /\ [][ReturnsOnce]_vars

\* A finished request whose stream failed with status 401: AUTH_FAILED is
\* answered with HTTP 500.
C13_Witness ==
  \E r \in Requests :
    /\ Finished(r)
    /\ req[r].openaiError.status = Num(401)
    /\ req[r].response.status = 500
    /\ req[r].response.body.errorCode = "AUTH_FAILED"

\* Every stored transcript starts with the system turn and has no other
\* system turn.
SystemTurnFirstOnly ==
  \A s \in DOMAIN conversations :
    /\ Len(conversations[s]) >= 1
    /\ conversations[s][1] = SystemTurn
    /\ \A k \in 2..Len(conversations[s]) : conversations[s][k].role # "system"

\* A step keeps every session and only appends to its transcript.
AppendOnly ==
  \A s \in DOMAIN conversations :
    /\ s \in DOMAIN conversations'
    /\ IsPrefix(conversations[s], conversations'[s])

\* C14: in every reachable state every stored transcript is non-empty, starts
\* with the system turn and has no other system turn, and every step leaves
\* each stored transcript a prefix of the new one.
C14_TranscriptAppendOnly == []SystemTurnFirstOnly /\ [][AppendOnly]_vars

\* A session on which two requests have pushed their turns.
C14_Witness ==
  \E s \in DOMAIN conversations :
    /\ Len(conversations[s]) = 5
    /\ conversations[s][4].role = "user"
    /\ conversations[s][5].role = "assistant"

IsNotification(e) == e.event \in {"error", "service-error"}

\* The request's last published event is its only error notification, on the
\* channel of its session.
NotifiedLast(r) ==
  LET pub == req[r].published
  IN  /\ Len(pub) >= 1
      /\ IsNotification(pub[Len(pub)])
      /\ Len(SelectSeq(pub, IsNotification)) = 1
      /\ pub[Len(pub)].channel = "chat-" \o req[r].sessionId.s

\* C15: a request that is about to return or has returned an error response
\* after its sessionId was resolved has published one error notification
\* (`error` or `service-error`) on chat-<sessionId> as its last event, and
\* the response it returns carries the notification's errorCode; a request
\* that failed before its sessionId was resolved has published nothing.
C15_FailureNotified ==
  \A r \in Requests :
    /\ req[r].pc \in {"errorPublished", "serviceErrorPublished"} =>
         /\ Truthy(req[r].sessionId)
         /\ NotifiedLast(r)
         /\ req[r].response = NoResponse
    /\ (Finished(r) /\ req[r].response.status # 200) =>
         IF Truthy(req[r].sessionId)
         THEN /\ NotifiedLast(r)
              /\ req[r].published[Len(req[r].published)].data.errorCode =
                   req[r].response.body.errorCode
         ELSE req[r].published = <<>>

\* A finished request whose connection to the model was refused: user-message
\* and then service-error with CONNECTION_ERROR, HTTP 503.
C15_Witness ==
  \E r \in Requests :
    /\ Finished(r)
    /\ EventNames(r) = <<"user-message", "service-error">>
    /\ req[r].published[2].data.errorCode = "CONNECTION_ERROR"
    /\ req[r].response.status = 503

\* C16: the history a request submitted to the model is the session's
\* transcript as it was at the call: a prefix of the current transcript that
\* holds the request's own user turn at its place, together with every turn
\* other requests pushed before the call, and not the request's own assistant
\* turn.  Nothing orders the requests of a session: the witness is the
\* interleaved transcript.
C16_SubmittedIsTranscriptAtCall ==
  \A r \in Requests : req[r].submitted # <<>> =>
    LET h == req[r].submitted
        a == req[r].appended
    IN  /\ IsPrefix(h, conversations[req[r].sessionId.s])
        /\ a[1].index <= Len(h)
        /\ h[a[1].index] = a[1].turn
        /\ Len(a) = 2 => a[2].index > Len(h)

\* Two successful requests on one session with different messages whose
\* turns interleave: system, user1, user2, assistant1, assistant2; the
\* second request submitted system, user1, user2.
C16_Witness ==
  \E r, q \in Requests :
    /\ Succeeded(r) /\ Succeeded(q)
    /\ SentSession(r) = SentSession(q)
    /\ SentMessage(r) # SentMessage(q)
    /\ conversations[SentSession(r)] =
         <<SystemTurn, req[r].appended[1].turn, req[q].appended[1].turn,
           req[r].appended[2].turn, req[q].appended[2].turn>>
    /\ req[r].appended[1].index = 2 /\ req[q].appended[1].index = 3
    /\ req[r].appended[2].index = 4 /\ req[q].appended[2].index = 5
    /\ req[q].submitted = <<SystemTurn, req[r].appended[1].turn, req[q].appended[1].turn>>

\* The rules of the mock reply on the lower-cased message, in their order.
MockRuleMatches(k, lower) ==
  CASE k = 1 -> Includes(lower, "hello") \/ Includes(lower, "hi")
    [] k = 2 -> Includes(lower, "test")
    [] k = 3 -> Includes(lower, "how are you")
    [] OTHER -> TRUE

MockRuleReply(k, message) ==
  CASE k = 1 -> MockGreeting
    [] k = 2 -> MockTest
    [] k = 3 -> MockStatus
    [] OTHER -> MockEcho(message)

RECURSIVE JoinAll(_)
JoinAll(chunks) == IF chunks = <<>> THEN "" ELSE Head(chunks) \o JoinAll(Tail(chunks))

\* C17: the text generateMockResponse returns for a message is the reply of
\* the first rule that matches the lower-cased message (hello or hi, test,
\* how are you, else the echo); its chunks are the words of that reply, the
\* first as it is and each later one after a space, and they join to the text.
C17_MockReplyByFirstRule ==
  (probe.kind = "mock" /\ probe.result # NotRun) =>
    LET lower == ToLowerCase(probe.message)
        first == CHOOSE k \in 1..4 :
                   /\ MockRuleMatches(k, lower)
                   /\ \A j \in 1..(k - 1) : ~MockRuleMatches(j, lower)
        reply == MockRuleReply(first, probe.message)
        ch    == probe.result.chunks
    IN  /\ probe.result.text = reply
        /\ JoinAll(ch) = reply
        /\ Len(ch) = CountSpaces(reply) + 1
        /\ \A k \in 1..Len(ch) :
             /\ k > 1 => Head(ch[k]) = " "
             /\ CountSpaces(ch[k]) = IF k = 1 THEN 0 ELSE 1

\* "test this" holds both "test" and "hi": the greeting.
C17_Witness ==
  /\ probe.kind = "mock"
  /\ probe.result # NotRun
  /\ probe.message = "test this"
  /\ probe.result.text = MockGreeting
  /\ Len(probe.result.chunks) = 17

\* The requests whose sessionId was resolved to s.
RequestsOn(s) == {r \in Requests : req[r].sessionId = Str(s)}

\* The number of turns the requests of R have pushed.
RECURSIVE TurnsPushed(_)
TurnsPushed(R) ==
  IF R = {}
  THEN 0
  ELSE LET r == CHOOSE x \in R : TRUE
       IN  Len(req[r].appended) + TurnsPushed(R \ {r})

\* C18: every stored session was created by exactly one request, its
\* transcript has one system turn, every turn a request pushed is still at
\* the index it was pushed to, and the transcript's length is 1 plus the
\* number of turns the requests of the session have pushed.
C18_SeededOnceNoTurnLost ==
  \A s \in DOMAIN conversations :
    /\ Cardinality({r \in RequestsOn(s) : req[r].created}) = 1
    /\ Len(SelectSeq(conversations[s], LAMBDA t : t.role = "system")) = 1
    /\ Len(conversations[s]) = 1 + TurnsPushed(RequestsOn(s))
    /\ \A r \in RequestsOn(s) : \A k \in 1..Len(req[r].appended) :
         /\ req[r].appended[k].index <= Len(conversations[s])
         /\ conversations[s][req[r].appended[k].index] = req[r].appended[k].turn

\* Two requests on one new session, both ended with HTTP 200, the one that
\* arrived second pushing its user turn second and its assistant turn first.
C18_Witness ==
  \E r, q \in Requests :
    /\ r < q
    /\ Succeeded(r) /\ Succeeded(q)
    /\ req[r].sessionId = req[q].sessionId
    /\ req[r].created /\ ~req[q].created
    /\ req[q].appended[1].index = 3
    /\ req[q].appended[2].index = 4
    /\ req[r].appended[2].index = 5
    /\ Len(conversations[req[r].sessionId.s]) = 5

\* The sessionIds a request may touch: the sessionId it sent, if it sent a
\* string.
OwnSessions(r) ==
  IF /\ req[r].request.kind = "json"
     /\ req[r].request.body.t = "object"
     /\ req[r].request.body.sessionId.t = "string"
  THEN {req[r].request.body.sessionId.s}
  ELSE {}

\* Every event of a request is on the channel of the session it was sent for.
OwnChannelOnly ==
  \A r \in Requests : \A k \in 1..Len(req[r].published) :
    \E s \in OwnSessions(r) : req[r].published[k].channel = "chat-" \o s

\* A step of a request creates no session but its own and leaves every other
\* session's transcript as it was.
OtherSessionsUntouched ==
  \A r \in Requests : (req[r].pc # "idle" /\ req'[r] # req[r]) =>
    /\ DOMAIN conversations \subseteq DOMAIN conversations'
    /\ DOMAIN conversations' \subseteq DOMAIN conversations \cup OwnSessions(r)
    /\ \A s \in DOMAIN conversations \ OwnSessions(r) :
         conversations'[s] = conversations[s]

\* C19: a request publishes only on the channel chat-<sessionId> of the
\* session it was sent for, and none of its steps changes the transcript of
\* another session or creates another session.
C19_SessionsIsolated == []OwnChannelOnly /\ [][OtherSessionsUntouched]_vars

\* A request on one session has returned 200 while a request that arrived
\* before it, on another session, is still publishing chunks.
C19_Witness ==
  \E r, q \in Requests :
    /\ r < q
    /\ Succeeded(q)
    /\ InFlight(r) /\ Len(ChunkEvents(r)) >= 1
    /\ req[r].sessionId # req[q].sessionId
    /\ Len(conversations[req[q].sessionId.s]) = 3
    /\ Len(conversations[req[r].sessionId.s]) = 2

\* Nothing is under way for the client: no request of it is being served,
\* every fetch has resolved, and every published event was delivered or lost.
ClientQuiet ==
  /\ \A r \in Requests : ~InFlight(r)
  /\ client.fetching = {}
  /\ \A r \in Requests : client.handled[r] = Len(req[r].published)

\* C20 as stated: once nothing is under way any more for the client,
\* isLoading is false, whatever the requests' outcomes were and whichever
\* events were lost.
C20_Original == ClientQuiet => ~client.isLoading

\* The messageIds carried by the chunk and complete events of a request.
EventMessageIds(r) ==
  {req[r].published[k].data.messageId :
     k \in {j \in 1..Len(req[r].published) :
              IsChunkEvent(req[r].published[j]) \/ IsCompleteEvent(req[r].published[j])}}

\* C21: all chunk and complete events of a request carry one messageId, the
\* one the request drew; a request that ended with HTTP 200 returns that
\* messageId, and its body's message, its complete event's content and the
\* content of the assistant turn it pushed are the same text.
C21_OneMessageId ==
  \A r \in Requests :
    /\ EventMessageIds(r) \subseteq {req[r].messageId}
    /\ EventMessageIds(r) # {} => req[r].messageId # ""
    /\ Succeeded(r) =>
         /\ EventMessageIds(r) = {req[r].response.body.messageId}
         /\ Len(CompleteEvents(r)) = 1
         /\ CompleteEvents(r)[1].data.content = req[r].response.body.message
         /\ Len(req[r].appended) = 2
         /\ req[r].appended[2].turn.role = "assistant"
         /\ req[r].appended[2].turn.content = req[r].response.body.message

\* Two requests ended with HTTP 200, the later one after publishing chunks;
\* each returned its own messageId.
C21_Witness ==
  \E r, q \in Requests :
    /\ r < q
    /\ Succeeded(r) /\ Succeeded(q)
    /\ Len(ChunkEvents(q)) >= 2
    /\ req[q].response.body.messageId = ChunkEvents(q)[1].data.messageId
    /\ req[r].response.body.messageId # req[q].response.body.messageId

=============================================================================
